---- MODULE Spec2Model ----
(***************************************************************************)
(* Model of app.py (TileIntel MVP calculator).                             *)
(*                                                                         *)
(* Numbers.  The program computes on floats; the model computes on exact   *)
(* decimal fixed point.  Areas, coverages and depths are carried in tenths *)
(* (area 500 is 50.0 m2, coverage 65 is 6.5 m2/L, depth 30 is 3.0 mm);     *)
(* tile sides and the waste percentage are integers as in the program.     *)
(* A returned number is a record [num, den] standing for num/den: den = 1  *)
(* for int results, 100 for round(x, 2), 10 for round(x, 1).               *)
(* Characters are code points; a string is a sequence of code points.      *)
(***************************************************************************)
EXTENDS Integers, Sequences, FiniteSets, TLC

VARIABLES
    call,       \* the last direct call of a calculator function, with its result
    txt,        \* the last direct call of _to_ascii or of generate_pdf.row
    pc,         \* position of the script run
    job,        \* the form inputs and the module-level results of the run
    uploads,    \* the uploaded files of the run, in upload order
    idx,        \* index of the next upload _add_uploaded_images looks at
    embedded,   \* images embedded in the document: <<upload index, width>>
    doc,        \* the characters written into the document by the run
    tmpfiles,   \* temporary PNG files that exist on disk
    nexttmp,    \* number of temporary files created so far
    shown,      \* what the run has put on screen
    runs        \* number of script runs started

vars == <<call, txt, pc, job, uploads, idx, embedded, doc, tmpfiles, nexttmp, shown, runs>>
runvars == <<pc, job, uploads, idx, embedded, doc, tmpfiles, nexttmp, shown, runs>>

----------------------------------------------------------------------------
(* Bounds of the model *)

MaxAreaT == 4          \* areas 0.0 .. 0.4 m2 are enumerated one by one
MaxLen == 3            \* longest string handed to _to_ascii
LongToken == 300       \* length of the long unbroken token handed to row()
MaxGlyphMm == 3        \* widest glyph, in mm, a token is made of
MaxUploads == 2        \* most files uploaded in one run
MaxRuns == 2           \* script runs (submissions) in one session

----------------------------------------------------------------------------
(* Arithmetic helpers *)

\* Python round(): to the nearest integer, ties to the even one.  d > 0.
RoundHalfEven(n, d) ==
    LET q == n \div d
        r == n % d
    IN  IF 2 * r < d THEN q
        ELSE IF 2 * r > d THEN q + 1
        ELSE IF q % 2 = 0 THEN q ELSE q + 1

\* math.ceil of n/d, d > 0
Ceil(n, d) == -((-n) \div d)

Max(a, b) == IF a >= b THEN a ELSE b

Num(n, d) == [num |-> n, den |-> d]

----------------------------------------------------------------------------
(* The calculator functions *)

\* a plausible slip: rounding up written as int(x) + 1
calc_tiles_plus1(area, waste_pct, tile_len_mm, tile_w_mm) ==
    IF tile_len_mm * tile_w_mm <= 0 THEN Num(0, 1)
    ELSE Num((area * 1000 * (100 + waste_pct)) \div (tile_len_mm * tile_w_mm) + 1, 1)

\* tile_area_m2 = len*w/10^6; base*(1+waste/100) = area*1000*(100+waste)/(len*w)
\* with area in tenths
calc_tiles(area, waste_pct, tile_len_mm, tile_w_mm) ==
    IF tile_len_mm * tile_w_mm <= 0 THEN Num(0, 1)
    ELSE Num(RoundHalfEven(area * 1000 * (100 + waste_pct), tile_len_mm * tile_w_mm), 1)

calc_primer_l(area, primer_cov) ==
    IF primer_cov <= 0 THEN Num(0, 100)
    ELSE Num(RoundHalfEven(100 * area, primer_cov), 100)

calc_adhesive_bags(area, adhesive_cov) ==
    IF adhesive_cov <= 0 THEN Num(0, 1)
    ELSE Num(RoundHalfEven(area, adhesive_cov), 1)

calc_grout_bags(area, grout_cov) ==
    IF grout_cov <= 0 THEN Num(0, 1)
    ELSE Num(RoundHalfEven(area, grout_cov), 1)

\* needed = area*max(0, depth)/coverage, rounded to one decimal
calc_levelling_bags(area, avg_depth, bag_cov) ==
    IF bag_cov <= 0 THEN Num(0, 10)
    ELSE Num(RoundHalfEven(area * Max(0, avg_depth), bag_cov), 10)

----------------------------------------------------------------------------
(* Direct calls of the calculator functions: the arguments are drawn at the
   start, a call applies one function to them *)

AreaVals == {-50, -1} \cup 0..MaxAreaT \cup {200, 500, 520}
WasteVals == {0, 10, 20}
TileDims == {-600, 0, 300, 600, 1200}
CovVals == {-10, 0, 1, 50, 130}
DepthVals == {-10, 0, 30}

NoCall == [fn |-> "none", area |-> 0, waste |-> 0, len |-> 0, w |-> 0,
           cov |-> 0, depth |-> 0, ret |-> Num(0, 1)]

CallArgs ==
    { [NoCall EXCEPT !.area = a, !.waste = p, !.len = l, !.w = w, !.cov = c, !.depth = d] :
        a \in AreaVals, p \in WasteVals, l \in TileDims, w \in TileDims,
        c \in CovVals, d \in DepthVals }

CallTiles ==
    /\ call.fn = "none"
    /\ call' = [call EXCEPT !.fn = "calc_tiles",
                            !.ret = calc_tiles(call.area, call.waste, call.len, call.w)]
    /\ UNCHANGED <<txt, runvars>>

CallPrimer ==
    /\ call.fn = "none"
    /\ call' = [call EXCEPT !.fn = "calc_primer_l",
                            !.ret = calc_primer_l(call.area, call.cov)]
    /\ UNCHANGED <<txt, runvars>>

CallAdhesive ==
    /\ call.fn = "none"
    /\ call' = [call EXCEPT !.fn = "calc_adhesive_bags",
                            !.ret = calc_adhesive_bags(call.area, call.cov)]
    /\ UNCHANGED <<txt, runvars>>

CallGrout ==
    /\ call.fn = "none"
    /\ call' = [call EXCEPT !.fn = "calc_grout_bags",
                            !.ret = calc_grout_bags(call.area, call.cov)]
    /\ UNCHANGED <<txt, runvars>>

CallLevelling ==
    /\ call.fn = "none"
    /\ call' = [call EXCEPT !.fn = "calc_levelling_bags",
                            !.ret = calc_levelling_bags(call.area, call.depth, call.cov)]
    /\ UNCHANGED <<txt, runvars>>

----------------------------------------------------------------------------
(* Text: _to_ascii and generate_pdf.row *)

\* None, told apart from every string (no string holds code point -1)
None == <<-1>>

\* the replacement table of _to_ascii, on code points
repl(ch) ==
    CASE ch = 8212 -> <<45>>                                \* em dash  -> "-"
      [] ch = 8211 -> <<45>>                                \* en dash  -> "-"
      [] ch = 8226 -> <<45>>                                \* bullet   -> "-"
      [] ch = 8220 -> <<34>>                                \* left double quote
      [] ch = 8221 -> <<34>>                                \* right double quote
      [] ch = 8216 -> <<39>>                                \* left single quote
      [] ch = 8217 -> <<39>>                                \* right single quote
      [] ch = 8230 -> <<46, 46, 46>>                        \* ellipsis -> "..."
      [] ch = 215  -> <<120>>                               \* times    -> "x"
      [] ch = 8482 -> <<40, 84, 77, 41>>                    \* TM       -> "(TM)"
      [] ch = 174  -> <<40, 82, 41>>                        \* (R)      -> "(R)"
      [] ch = 176  -> <<32, 100, 101, 103, 114, 101, 101, 115>>  \* " degrees"
      [] OTHER     -> <<ch>>                                \* repl.get(ch, ch)

\* "".join(repl.get(ch, ch) for ch in s), joined by halves
RECURSIVE JoinRepl(_)
JoinRepl(s) ==
    IF s = <<>> THEN <<>>
    ELSE IF Len(s) = 1 THEN repl(s[1])
    ELSE LET h == Len(s) \div 2
         IN  JoinRepl(SubSeq(s, 1, h)) \o JoinRepl(SubSeq(s, h + 1, Len(s)))

_to_ascii(s) == IF s = None THEN <<>> ELSE JoinRepl(s)

\* str.encode("latin-1") succeeds exactly on code points 0..255
Latin1Encodable(s) == \A i \in 1..Len(s) : s[i] <= 255

\* length of the longest run of non-space characters of s: the widest gap
\* between two neighbouring breaks (spaces, and the two ends of s)
LongestToken(s) ==
    LET B == {0, Len(s) + 1} \cup {i \in 1..Len(s) : s[i] = 32}
        Gap(b) == CHOOSE c \in B : c > b /\ \A d \in B : d > b => c <= d
        G == {Gap(b) - b - 1 : b \in B \ {Len(s) + 1}}
    IN  CHOOSE g \in G : \A h \in G : h <= g

PageW == 210       \* A4 portrait, mm
Margin == 10       \* FPDF's default left and right margin, mm
LabelW == 45       \* width of the label cell of row()

\* row() that puts a soft break after every `fit` characters of the value
SoftBreak(s, fit) ==
    [k \in 1..(Len(s) + (Len(s) - 1) \div fit) |->
        IF k % (fit + 1) = 0 THEN 32 ELSE s[k - k \div (fit + 1)]]

row_soft_breaks(label, value) ==
    LET x == Margin + LabelW
        w == PageW - Margin - x
    IN  [x |-> x, col_w |-> w,
         text |-> SoftBreak(_to_ascii(IF value # None THEN value ELSE <<>>), w \div 4)]

\* row(label, value): the label goes into a cell 45 wide, which moves the
\* cursor right by 45 whatever the label's text; the value goes into
\* multi_cell(0, ...), which spans from the cursor to the right margin.
row(label, value) ==
    LET x == Margin + LabelW
        w == PageW - Margin - x
    IN  [x |-> x, col_w |-> w,
         text |-> _to_ascii(IF value # None THEN value ELSE <<>>)]

Rep(ch, n) == [i \in 1..n |-> ch]

Chars == {65, 32, 233, 176, 8212, 8230, 8364}

RECURSIVE StringsUpTo(_)
StringsUpTo(n) ==
    IF n = 0 THEN {<<>>}
    ELSE LET S == StringsUpTo(n - 1)
         IN  S \cup {Append(s, c) : s \in S, c \in Chars}

TextInputs == StringsUpTo(MaxLen) \cup {None}

Labels == {Rep(65, 3), Rep(65, 25), Rep(65, 60)}
TokenLens == {1, 20, 60, LongToken}
RowValues == {Rep(c, n) : c \in {65, 8212, 8364}, n \in TokenLens}
                \cup {Rep(65, n) \o <<32>> \o Rep(65, m) : n \in TokenLens, m \in {1, 60}}
                \cup {None, <<>>}

NoLay == [x |-> 0, col_w |-> 0, text |-> <<>>]

NoText == [fn |-> "none", s |-> <<>>, label |-> <<>>, value |-> <<>>, glyph |-> 1,
           out |-> <<>>, lay |-> NoLay]

\* glyph: the rendered width in mm of each character of the value's tokens
TextArgs ==
    { [NoText EXCEPT !.s = s] : s \in TextInputs }
        \cup { [NoText EXCEPT !.label = l, !.value = v, !.glyph = g] :
                 l \in Labels, v \in RowValues, g \in 1..MaxGlyphMm }

CallToAscii ==
    /\ txt.fn = "none"
    /\ txt' = [txt EXCEPT !.fn = "_to_ascii", !.out = _to_ascii(txt.s)]
    /\ UNCHANGED <<call, runvars>>

CallRow ==
    /\ txt.fn = "none"
    /\ txt' = [txt EXCEPT !.fn = "row", !.lay = row(txt.label, txt.value)]
    /\ UNCHANGED <<call, runvars>>

----------------------------------------------------------------------------
(* The script run: form, calculations, generate_pdf, download button *)

\* what the sidebar widgets can deliver (area and depth have min_value 0.0,
\* the tile sizes are the options of the selectbox, waste is the slider)
FormAreas == {0, 200, 500}
FormTiles == {<<600, 600>>}
FormWaste == {10}
FormSubstrates == {"Anhydrite screed", "Concrete"}
FormDepths == {0, 30}
FormNotes == {<<65>>, <<8364>>}

DefaultDepth == 30          \* value=3.0 of the levelling depth input
PrimerCov == 65             \* value=6.5
AdhesiveCov == 50           \* value=5.0
GroutCov == 160             \* value=16.0
LevellingCov == 130         \* value=13.0
ImageW == 160               \* pdf.image(tmp_path, w=160)

\* An uploaded file: its declared media type, what its bytes are, and the
\* colour mode its header announces.  Image.open reads the header only; the
\* pixel data is read by convert() or save().
UploadKinds ==
    { [type |-> "application/pdf", data |-> "pdf",       mode |-> "none"],
      [type |-> "image/png",       data |-> "garbage",   mode |-> "none"],
      [type |-> "image/png",       data |-> "truncated", mode |-> "RGB"],
      [type |-> "image/png",       data |-> "truncated", mode |-> "P"],
      [type |-> "image/png",       data |-> "ok",        mode |-> "RGB"],
      [type |-> "image/png",       data |-> "ok",        mode |-> "P"] }

RECURSIVE UploadSeqs(_)
UploadSeqs(n) ==
    IF n = 0 THEN {<<>>}
    ELSE LET S == UploadSeqs(n - 1)
         IN  S \cup {Append(u, k) : u \in S, k \in UploadKinds}

\* _pil_image_from_upload: None for a declared PDF and for bytes Image.open
\* rejects (both except clauses return None); otherwise the opened image
_pil_image_from_upload(upload) ==
    IF upload.type = "application/pdf" THEN "None"
    ELSE IF upload.data = "garbage" THEN "None"
    ELSE "img"

NoJob == [area |-> 0, tile |-> <<600, 600>>, waste |-> 10, substrate |-> "Anhydrite screed",
          depth |-> DefaultDepth, notes |-> <<>>,
          tile_count |-> Num(0, 1), primer_l |-> Num(0, 100), adhesive_bags |-> Num(0, 1),
          grout_bags |-> Num(0, 1), levelling_bags |-> Num(0, 10)]

\* One script run starts (lines 201-287): the widgets deliver the inputs, the
\* module-level calculations run, the metrics go on screen, the job is built.
\* Files in the temporary directory are left as the earlier runs left them.
Submit ==
    /\ pc \in {"idle", "end", "raised_images", "raised_output"}
    /\ runs < MaxRuns
    /\ \E a \in FormAreas, t \in FormTiles, p \in FormWaste, sub \in FormSubstrates,
          d \in FormDepths, n \in FormNotes, ups \in UploadSeqs(MaxUploads) :
         /\ job' = [area |-> a, tile |-> t, waste |-> p, substrate |-> sub,
                    depth |-> d, notes |-> n,
                    tile_count |-> calc_tiles(a, p, t[1], t[2]),
                    primer_l |-> calc_primer_l(a, PrimerCov),
                    adhesive_bags |-> calc_adhesive_bags(a, AdhesiveCov),
                    grout_bags |-> calc_grout_bags(a, GroutCov),
                    levelling_bags |-> calc_levelling_bags(a, d, LevellingCov)]
         /\ uploads' = ups
    /\ runs' = runs + 1
    /\ shown' = {"metrics"}
    /\ pc' = "job_built"
    /\ idx' = 1
    /\ embedded' = <<>>
    /\ doc' = <<>>
    /\ UNCHANGED <<call, txt, tmpfiles, nexttmp>>

\* generate_pdf up to the call of _add_uploaded_images (lines 121-192): the
\* free text goes into the page through _to_ascii (the fixed headings and the
\* numbers are plain ASCII).
GeneratePdfBody ==
    /\ pc = "job_built"
    /\ doc' = _to_ascii(job.notes)
    /\ pc' = IF uploads # <<>> THEN "images" ELSE "output"
    /\ UNCHANGED <<call, txt, job, uploads, idx, embedded, tmpfiles, nexttmp, shown, runs>>

\* One pass of the for loop of _add_uploaded_images (lines 100-115).
\* embed_ok: whether pdf.cell/pdf.image inside the try succeed.
AddUploadedImage ==
    /\ pc = "images"
    /\ idx <= Len(uploads)
    /\ LET file == uploads[idx]
           img == _pil_image_from_upload(file)
           tmp == nexttmp + 1
       IN  IF img = "None"
           THEN \* continue
                /\ idx' = idx + 1
                /\ UNCHANGED <<pc, embedded, tmpfiles, nexttmp>>
           ELSE IF file.mode # "RGB" /\ file.data = "truncated"
           THEN \* img.convert("RGB") raises, outside any try
                /\ pc' = "raised_images"
                /\ UNCHANGED <<idx, embedded, tmpfiles, nexttmp>>
           ELSE IF file.data = "truncated"
           THEN \* the temporary file exists (delete=False), img.save raises
                /\ pc' = "raised_images"
                /\ tmpfiles' = tmpfiles \cup {tmp}
                /\ nexttmp' = tmp
                /\ UNCHANGED <<idx, embedded>>
           ELSE \E embed_ok \in BOOLEAN :
                /\ tmpfiles' = tmpfiles \cup {tmp}
                /\ nexttmp' = tmp
                /\ embedded' = IF embed_ok THEN Append(embedded, <<idx, ImageW>>)
                               ELSE embedded      \* except Exception: pass
                /\ idx' = idx + 1
                /\ UNCHANGED pc
    /\ UNCHANGED <<call, txt, job, uploads, doc, shown, runs>>

\* _add_uploaded_images returns at the end of the sequence
ImagesDone ==
    /\ pc = "images"
    /\ idx > Len(uploads)
    /\ pc' = "output"
    /\ UNCHANGED <<call, txt, job, uploads, idx, embedded, doc, tmpfiles, nexttmp, shown, runs>>

\* return pdf.output(dest="S").encode("latin-1") (line 195)
PdfOutput ==
    /\ pc = "output"
    /\ pc' = IF Latin1Encodable(doc) THEN "pdf_returned" ELSE "raised_output"
    /\ UNCHANGED <<call, txt, job, uploads, idx, embedded, doc, tmpfiles, nexttmp, shown, runs>>

\* the download button and the footer (lines 291-300)
DownloadAndFooter ==
    /\ pc = "pdf_returned"
    /\ shown' = shown \cup {"download", "footer"}
    /\ pc' = "end"
    /\ UNCHANGED <<call, txt, job, uploads, idx, embedded, doc, tmpfiles, nexttmp, runs>>

----------------------------------------------------------------------------
(* Specifications *)

RunIdle ==
    /\ pc = "idle"
    /\ job = NoJob
    /\ uploads = <<>>
    /\ idx = 1
    /\ embedded = <<>>
    /\ doc = <<>>
    /\ tmpfiles = {}
    /\ nexttmp = 0
    /\ shown = {}
    /\ runs = 0

Init == call = NoCall /\ txt = NoText /\ RunIdle

Next == Submit \/ GeneratePdfBody \/ AddUploadedImage \/ ImagesDone \/ PdfOutput
           \/ DownloadAndFooter
Spec == Init /\ [][Next]_vars

InitCalc == call \in CallArgs /\ txt = NoText /\ RunIdle
NextCalc == CallTiles \/ CallPrimer \/ CallAdhesive \/ CallGrout \/ CallLevelling
SpecCalc == InitCalc /\ [][NextCalc]_vars

InitText == call = NoCall /\ txt \in TextArgs /\ RunIdle
NextText == CallToAscii \/ CallRow
SpecText == InitText /\ [][NextText]_vars

----------------------------------------------------------------------------
(* Claims about the calculator functions, under SpecCalc *)

Called == call.fn # "none"

\* C1: for area >= 0, waste in 0..20, positive tile sides and a positive
\* coverage, every count of discrete units is the non-negative integer
\* ceiling of its continuous quantity: calc_tiles = ceil((area/tile_area) *
\* (1 + waste/100)), calc_adhesive_bags = ceil(area/coverage), calc_grout_bags
\* = ceil(area/coverage), calc_levelling_bags = the integer
\* ceil(area*depth/coverage).
C1_UnitsAreCeilings ==
    (/\ Called /\ call.area >= 0 /\ call.waste \in 0..20 /\ call.len > 0 /\ call.w > 0
     /\ call.cov > 0 /\ call.depth >= 0)
    => CASE call.fn = "calc_tiles" ->
              call.ret = Num(Ceil(call.area * 1000 * (100 + call.waste), call.len * call.w), 1)
         [] call.fn \in {"calc_adhesive_bags", "calc_grout_bags"} ->
              call.ret = Num(Ceil(call.area, call.cov), 1)
         [] call.fn = "calc_levelling_bags" ->
              /\ call.ret.num % call.ret.den = 0
              /\ call.ret.num \div call.ret.den = Ceil(call.area * call.depth, 10 * call.cov)
         [] OTHER -> TRUE

\* C2: for positive area, positive tile sides and waste >= 0, calc_tiles
\* returns at least ceil(area / tile_area).
C2_TilesCoverArea ==
    (call.fn = "calc_tiles" /\ call.area > 0 /\ call.len > 0 /\ call.w > 0 /\ call.waste >= 0)
    => call.ret.num >= Ceil(call.area * 100000, call.len * call.w)

\* C3: with area = 0 every calculator function returns 0, whatever the tile
\* size, waste percentage, levelling depth and coverage are.
C3_ZeroAreaGivesZero ==
    (Called /\ call.area = 0) => call.ret.num = 0

\* a call of calc_tiles with area 0 on a real tile with the largest waste
C3_Witness ==
    /\ call.fn = "calc_tiles" /\ call.area = 0 /\ call.len = 600 /\ call.w = 300
    /\ call.waste = 20 /\ call.ret = Num(0, 1)

\* C4: every calculator function returns 0 when the area is zero or negative
\* or when its denominator (coverage, tile area) is zero or negative.
C4_DegenerateGivesZero ==
    (/\ Called
     /\ \/ call.area <= 0
        \/ call.fn = "calc_tiles" /\ call.len * call.w <= 0
        \/ call.fn # "calc_tiles" /\ call.cov <= 0)
    => call.ret.num = 0

----------------------------------------------------------------------------
(* Claims about the text functions, under SpecText *)

\* C7: every character of the result of _to_ascii is in the Latin-1 range
\* that generate_pdf encodes with, for every input string and for None.
C7_ToAsciiIsLatin1 ==
    txt.fn = "_to_ascii" => Latin1Encodable(txt.out)

PlainToken(v) == v # None /\ \A i \in 1..Len(v) : v[i] = 65

----------------------------------------------------------------------------
(* Claims about the script run, under Spec *)

Decodable(u) == u.type # "application/pdf" /\ u.data = "ok"

RECURSIVE ValidEmbeds(_, _)
ValidEmbeds(ups, i) ==
    IF i > Len(ups) THEN <<>>
    ELSE (IF Decodable(ups[i]) THEN <<(<<i, 160>>)>> ELSE <<>>) \o ValidEmbeds(ups, i + 1)

\* C5: _add_uploaded_images runs to the end of every sequence of uploads
\* without raising, skipping an upload that fails at any step, and the
\* images embedded are exactly the validly decodable uploads, once each, in
\* upload order, at width 160.
C5_BadUploadsSkipped ==
    /\ pc # "raised_images"
    /\ pc \in {"pdf_returned", "end"} => embedded = ValidEmbeds(uploads, 1)

\* C6: no exception leaves the script run: every run ends with the footer
\* rendered and either the download offered or an error message shown.
C6_RunReachesFooter ==
    pc \in {"end", "raised_images", "raised_output"} =>
        /\ "footer" \in shown
        /\ "download" \in shown \/ "error" \in shown

ContainsAnhydrite(sub) == sub = "Anhydrite screed"

\* C8: for positive area and the form's levelling depth left at its default,
\* a substrate containing "anhydrite" gets a non-zero levelling bag count and
\* "Concrete" gets 0 levelling bags.
C8_LevellingBySubstrate ==
    (pc # "idle" /\ job.area > 0 /\ job.depth = DefaultDepth) =>
        /\ ContainsAnhydrite(job.substrate) => job.levelling_bags.num > 0
        /\ job.substrate = "Concrete" => job.levelling_bags.num = 0

\* C10: when generate_pdf has returned no temporary PNG file is left.
C10_NoTempFileLeft ==
    pc \in {"pdf_returned", "end"} => tmpfiles = {}

====
